---- MODULE Spec2Model ----
(***************************************************************************)
(* The open-addressing hash maps of the benchmark corpus:                  *)
(*   - the flat string-keyed map of 12_gc_stress/bench.c (CAPACITY 8),     *)
(*   - the nested map of 17_nested_update/bench.c (CAPACITY 4), whose      *)
(*     entries hold either a long or a pointer to another table, and the   *)
(*     traversal main makes through three such tables.                     *)
(* A C string is the sequence of its bytes (no byte is 0); unsigned is     *)
(* 32 bits wide.  A call is one step: a loop that never leaves is the      *)
(* step to "hung", after which the program makes no further call.          *)
(***************************************************************************)
EXTENDS Integers, Sequences, FiniteSets, TLC

VARIABLES
    m, mstat, mev, mlast,           \* 12_gc_stress: one map and its calls
    tA, tB, pairs, todoA, todoB,    \* 12_gc_stress: two maps, one set of pairs
    tabs, pc, ev, inserted,         \* 17_nested_update: the tables and their calls
    nputs, i, ret, t0               \* 17_nested_update: main's loop and result

flatvars == <<m, mstat, mev, mlast>>
permvars == <<tA, tB, pairs, todoA, todoB>>
nestvars == <<tabs, pc, ev, inserted, nputs, i, ret, t0>>
vars == <<flatvars, permvars, nestvars>>

\* ------------------------------------------------------------ bounds

\* the largest value handed to put (12_gc_stress)
MaxVal == 1

\* the puts before main's loop (17_nested_update; main makes three)
MaxPuts == 3

\* the iterations of main's loop (17_nested_update; main makes 10000)
MaxIter == 3

\* ------------------------------------------------------- C arithmetic

\* An unsigned (32 bits) is held as two 16-bit halves, [hi, lo]: TLC's
\* integers are 32 bits signed and h * 33 does not fit them.
HALF == 2^16

Unsigned(n) == [hi |-> (n \div HALF) % HALF, lo |-> n % HALF]

\* u * k + c in unsigned arithmetic (mod 2^32), for small k and c
UMulAdd(u, k, c) ==
    LET low == u.lo * k + c
    IN  [hi |-> (u.hi * k + low \div HALF) % HALF, lo |-> low % HALF]

\* x & y on non-negative integers, bit by bit
RECURSIVE BitAnd(_, _)
BitAnd(x, y) ==
    IF x = 0 \/ y = 0 THEN 0
    ELSE (x % 2) * (y % 2) + 2 * BitAnd(x \div 2, y \div 2)

\* u & mask for an unsigned u and a mask below 2^16 (CAPACITY - 1)
UAnd(u, mask) == BitAnd(u.lo, mask)

\* strcmp of <string.h>: 0 for equal strings, else the difference of the
\* first two bytes that differ (the end of a string reads as byte 0)
RECURSIVE strcmp(_, _)
strcmp(a, b) ==
    IF a = <<>> /\ b = <<>> THEN 0
    ELSE IF a = <<>> THEN 0 - Head(b)
    ELSE IF b = <<>> THEN Head(a)
    ELSE IF Head(a) # Head(b) THEN Head(a) - Head(b)
    ELSE strcmp(Tail(a), Tail(b))

\* the loop of hash_str: h = h * 33 + (unsigned char)*s++, in unsigned
RECURSIVE hash_loop(_, _)
hash_loop(h, s) ==
    IF s = <<>> THEN h
    ELSE hash_loop(UMulAdd(h, 33, Head(s)), Tail(s))

hash_str(s) == hash_loop(Unsigned(5381), s)

\* the null pointer in a key field (zeroed memory); no C string is it
NullKey == <<0>>

\* ----------------------------------------------- 12_gc_stress: the map

CAPACITY == 8

\* calloc(CAPACITY, sizeof(Entry))
EmptyMap == [idx \in 0 .. CAPACITY - 1 |-> [key |-> NullKey, val |-> 0, used |-> FALSE]]

\* (a put that writes the key's own bucket whatever it holds)
put_loop_noprobe(t, key, idx, n) == [exits |-> TRUE, idx |-> idx, probes |-> 1]

\* (a put whose loop tests used alone and passes the key it looks for)
RECURSIVE put_loop_nomatch(_, _, _, _)
put_loop_nomatch(t, key, idx, n) ==
    IF t[idx].used
    THEN IF n = CAPACITY
         THEN [exits |-> FALSE, idx |-> idx, probes |-> n + 1]
         ELSE put_loop_nomatch(t, key, BitAnd(idx + 1, CAPACITY - 1), n + 1)
    ELSE [exits |-> TRUE, idx |-> idx, probes |-> n + 1]

\* put's while loop from idx, n iterations done.  The loop writes nothing,
\* so once it has advanced CAPACITY times without leaving it is back at a
\* slot it has tested before and never leaves (exits = FALSE).
RECURSIVE put_loop(_, _, _, _)
put_loop(t, key, idx, n) ==
    IF t[idx].used /\ strcmp(t[idx].key, key) # 0
    THEN IF n = CAPACITY
         THEN [exits |-> FALSE, idx |-> idx, probes |-> n + 1]
         ELSE put_loop(t, key, BitAnd(idx + 1, CAPACITY - 1), n + 1)
    ELSE [exits |-> TRUE, idx |-> idx, probes |-> n + 1]

\* where put writes
put_slot(t, key) == put_loop(t, key, UAnd(hash_str(key), CAPACITY - 1), 0)

\* the table after put returned (put_slot(t, key).exits)
put(t, key, val) ==
    [t EXCEPT ![put_slot(t, key).idx] = [key |-> key, val |-> val, used |-> TRUE]]

\* (a get that returns the value of the first occupied slot it meets)
get_loop_first(t, key, idx, n) ==
    IF t[idx].used
    THEN [returns |-> TRUE, val |-> t[idx].val, probes |-> 1]
    ELSE [returns |-> TRUE, val |-> 0, probes |-> 1]

\* get's while loop from idx, n iterations done; returns = FALSE is the
\* loop that never leaves, as in put_loop
RECURSIVE get_loop(_, _, _, _)
get_loop(t, key, idx, n) ==
    IF t[idx].used
    THEN IF strcmp(t[idx].key, key) = 0
         THEN [returns |-> TRUE, val |-> t[idx].val, probes |-> n + 1]
         ELSE IF n = CAPACITY
              THEN [returns |-> FALSE, val |-> 0, probes |-> n + 1]
              ELSE get_loop(t, key, BitAnd(idx + 1, CAPACITY - 1), n + 1)
    ELSE [returns |-> TRUE, val |-> 0, probes |-> n + 1]

get(t, key) == get_loop(t, key, UAnd(hash_str(key), CAPACITY - 1), 0)

\* ------------------------------------------- 17_nested_update: the tables

CAPACITY17 == 4

\* Entry level_x[CAPACITY] = {{0}}: every field zero
EmptyTable ==
    [idx \in 0 .. CAPACITY17 - 1 |->
        [key |-> NullKey, val |-> 0, used |-> FALSE, is_ptr |-> FALSE, ptr |-> "NULL"]]

\* main's three arrays, named as a pointer to each reads
Tables == {"level_a", "level_b", "level_c"}

\* find's while loop from idx, n iterations done; found = FALSE is the NULL
\* result, returns = FALSE the loop that never leaves (as in put_loop)
RECURSIVE find_loop(_, _, _, _)
find_loop(t, key, idx, n) ==
    IF t[idx].used
    THEN IF strcmp(t[idx].key, key) = 0
         THEN [returns |-> TRUE, found |-> TRUE, idx |-> idx, probes |-> n + 1]
         ELSE IF n = CAPACITY17
              THEN [returns |-> FALSE, found |-> FALSE, idx |-> idx, probes |-> n + 1]
              ELSE find_loop(t, key, BitAnd(idx + 1, CAPACITY17 - 1), n + 1)
    ELSE [returns |-> TRUE, found |-> FALSE, idx |-> idx, probes |-> n + 1]

find(t, key) == find_loop(t, key, UAnd(hash_str(key), CAPACITY17 - 1), 0)

\* (a probe that steps over every other slot)
RECURSIVE probe_loop_skip(_, _, _, _)
probe_loop_skip(t, key, idx, n) ==
    IF t[idx].used /\ strcmp(t[idx].key, key) # 0
    THEN IF n = CAPACITY17
         THEN [exits |-> FALSE, idx |-> idx, probes |-> n + 1]
         ELSE probe_loop_skip(t, key, BitAnd(idx + 2, CAPACITY17 - 1), n + 1)
    ELSE [exits |-> TRUE, idx |-> idx, probes |-> n + 1]

\* (a probe that tests used alone and passes the key it looks for)
RECURSIVE probe_loop_nomatch(_, _, _, _)
probe_loop_nomatch(t, key, idx, n) ==
    IF t[idx].used
    THEN IF n = CAPACITY17
         THEN [exits |-> FALSE, idx |-> idx, probes |-> n + 1]
         ELSE probe_loop_nomatch(t, key, BitAnd(idx + 1, CAPACITY17 - 1), n + 1)
    ELSE [exits |-> TRUE, idx |-> idx, probes |-> n + 1]

\* the while loop of put_val, and of put_ptr, whose text is the same
RECURSIVE probe_loop(_, _, _, _)
probe_loop(t, key, idx, n) ==
    IF t[idx].used /\ strcmp(t[idx].key, key) # 0
    THEN IF n = CAPACITY17
         THEN [exits |-> FALSE, idx |-> idx, probes |-> n + 1]
         ELSE probe_loop(t, key, BitAnd(idx + 1, CAPACITY17 - 1), n + 1)
    ELSE [exits |-> TRUE, idx |-> idx, probes |-> n + 1]

probe(t, key) == probe_loop(t, key, UAnd(hash_str(key), CAPACITY17 - 1), 0)

\* the table after put_val returned: the slot's ptr field is not written
put_val(t, key, val) ==
    [t EXCEPT ![probe(t, key).idx] =
        [@ EXCEPT !.key = key, !.val = val, !.used = TRUE, !.is_ptr = FALSE]]

\* the table after put_ptr returned: the slot's val field is not written
put_ptr(t, key, ptr) ==
    [t EXCEPT ![probe(t, key).idx] =
        [@ EXCEPT !.key = key, !.ptr = ptr, !.used = TRUE, !.is_ptr = TRUE]]

\* ------------------------------------- 17_nested_update: main's traversal

\* What the build may make of a use of a null pointer (ea->ptr with ea NULL,
\* t[idx].used with t NULL, ec->val++ with ec NULL): stop the process, or
\* carry on with no defined result.
UBOutcomes == {"crashed", "undefined"}

\* find(level_a, "a"), find(ea->ptr, "b"), find(eb->ptr, "c"): ea->ptr and
\* eb->ptr are read whatever is_ptr says.  status "ok": ec is slot idx of
\* table tab; "ub": a null pointer was used; "hung": a find never returned.
walk(T) ==
    LET fa == find(T["level_a"], <<97>>)
        pa == T["level_a"][fa.idx].ptr
        fb == find(T[pa], <<98>>)
        pb == T[pa][fb.idx].ptr
        fc == find(T[pb], <<99>>)
        Stop(st) == [status |-> st, tab |-> "NULL", idx |-> 0]
    IN  IF ~fa.returns THEN Stop("hung")
        ELSE IF ~fa.found \/ pa = "NULL" THEN Stop("ub")
        ELSE IF ~fb.returns THEN Stop("hung")
        ELSE IF ~fb.found \/ pb = "NULL" THEN Stop("ub")
        ELSE IF ~fc.returns THEN Stop("hung")
        ELSE IF ~fc.found THEN Stop("ub")
        ELSE [status |-> "ok", tab |-> pb, idx |-> fc.idx]

\* (an increment of a copy of the entry: the table keeps its value)
inc_copy(T, w) == T

\* ec->val++ on the entry walk reached
inc(T, w) == [T EXCEPT ![w.tab][w.idx].val = @ + 1]

\* ------------------------------------------------------ inputs and starts

\* the keys handed to the map of 12_gc_stress: "a" "b" "c" of main, and
\* "i" "j", which share the buckets of "a" and "b" ("a" "i" hash to 6,
\* "b" "j" to 7, "c" to 0)
Keys == {<<97>>, <<98>>, <<99>>, <<105>>, <<106>>}

Vals == 0 .. MaxVal

\* the keys handed to the tables of 17_nested_update: "a" "b" "c" of main,
\* and "d" "e": with CAPACITY 4, "c" hashes to 0, "d" to 1, "a" and "e" to
\* 2, "b" to 3
PathKeys == {<<97>>, <<98>>, <<99>>}
Keys17 == PathKeys \cup {<<100>>, <<101>>}

NoCall == [op |-> "none", key |-> NullKey, val |-> 0, had |-> FALSE]

NoCall17 ==
    [op |-> "none", tab |-> "NULL", key |-> NullKey, res |-> "none",
     had |-> FALSE, full |-> FALSE, probes |-> 0]

\* t has an occupied slot with this key
Holds(t, key) == \E idx \in DOMAIN t : t[idx].used /\ t[idx].key = key

Occupied(t) == {idx \in DOMAIN t : t[idx].used}

\* every slot of t is occupied, none by key
FullOfOthers(t, key) == \A idx \in DOMAIN t : t[idx].used /\ t[idx].key # key

\* main of 12_gc_stress after calloc
FlatStart ==
    /\ m = EmptyMap
    /\ mstat = "ready"
    /\ mev = NoCall
    /\ mlast = [k \in {} |-> 0]

PermIdle ==
    /\ tA = EmptyMap
    /\ tB = EmptyMap
    /\ pairs = [k \in {} |-> 0]
    /\ todoA = {}
    /\ todoB = {}

\* main of 17_nested_update with its three arrays zeroed
NestStart ==
    /\ tabs = [tb \in Tables |-> EmptyTable]
    /\ pc = "build"
    /\ ev = NoCall17
    /\ inserted = [tb \in Tables |-> {}]
    /\ nputs = 0
    /\ i = 0
    /\ ret = 0
    /\ t0 = [tb \in Tables |-> EmptyTable]

\* --------------------------------------------- 12_gc_stress: calls on m

\* a call put(m, key, val); mlast remembers the value handed over
Put(key, val) ==
    /\ mstat = "ready"
    /\ mev' = [op |-> "put", key |-> key, val |-> val, had |-> Holds(m, key)]
    /\ IF put_slot(m, key).exits
       THEN /\ m' = put(m, key, val)
            /\ mstat' = "ready"
            /\ mlast' = [k \in DOMAIN mlast \cup {key} |->
                            IF k = key THEN val ELSE mlast[k]]
       ELSE /\ mstat' = "hung"
            /\ UNCHANGED <<m, mlast>>
    /\ UNCHANGED <<permvars, nestvars>>

\* a call get(m, key)
Get(key) ==
    /\ mstat = "ready"
    /\ IF get(m, key).returns
       THEN /\ mstat' = "ready"
            /\ mev' = [op |-> "get", key |-> key, val |-> get(m, key).val,
                       had |-> Holds(m, key)]
       ELSE /\ mstat' = "hung"
            /\ mev' = [op |-> "get", key |-> key, val |-> 0,
                       had |-> Holds(m, key)]
    /\ UNCHANGED <<m, mlast>>
    /\ UNCHANGED <<permvars, nestvars>>

FlatInit == FlatStart /\ PermIdle /\ NestStart

FlatNext ==
    \/ \E key \in Keys, val \in Vals : Put(key, val)
    \/ \E key \in Keys : Get(key)

SpecFlat == FlatInit /\ [][FlatNext]_vars

\* ------------------------------ 12_gc_stress: one set of pairs, two orders

\* every way to give some of the keys a value
PairSets == UNION {[S -> Vals] : S \in SUBSET Keys}

PermInit ==
    /\ FlatStart
    /\ NestStart
    /\ pairs \in PairSets
    /\ tA = EmptyMap
    /\ tB = EmptyMap
    /\ todoA = DOMAIN pairs
    /\ todoB = DOMAIN pairs

\* put(tA, key, pairs[key]) for a pair not yet in tA
PutA(key) ==
    /\ mstat = "ready"
    /\ key \in todoA
    /\ IF put_slot(tA, key).exits
       THEN tA' = put(tA, key, pairs[key]) /\ todoA' = todoA \ {key} /\ mstat' = mstat
       ELSE mstat' = "hung" /\ UNCHANGED <<tA, todoA>>
    /\ UNCHANGED <<m, mev, mlast, tB, pairs, todoB, nestvars>>

\* put(tB, key, pairs[key]) for a pair not yet in tB; the second map is
\* filled once the first is (the maps share nothing, so the order between a
\* put on one and a put on the other changes neither)
PutB(key) ==
    /\ mstat = "ready"
    /\ todoA = {}
    /\ key \in todoB
    /\ IF put_slot(tB, key).exits
       THEN tB' = put(tB, key, pairs[key]) /\ todoB' = todoB \ {key} /\ mstat' = mstat
       ELSE mstat' = "hung" /\ UNCHANGED <<tB, todoB>>
    /\ UNCHANGED <<m, mev, mlast, tA, pairs, todoA, nestvars>>

PermNext ==
    \/ \E key \in Keys : PutA(key)
    \/ \E key \in Keys : PutB(key)

SpecPerm == PermInit /\ [][PermNext]_vars

\* -------------------------------------- 17_nested_update: calls on a table

\* what a put call leaves behind, apart from the table
PutCalled(op, tb, key) ==
    /\ ev' = [op |-> op, tab |-> tb, key |-> key,
              res |-> IF probe(tabs[tb], key).exits THEN "void" ELSE "hung",
              had |-> key \in inserted[tb],
              full |-> FullOfOthers(tabs[tb], key),
              probes |-> probe(tabs[tb], key).probes]
    /\ IF probe(tabs[tb], key).exits
       THEN /\ pc' = pc
            /\ inserted' = [inserted EXCEPT ![tb] = @ \cup {key}]
       ELSE /\ pc' = "hung"
            /\ inserted' = inserted
    /\ UNCHANGED <<i, ret, t0, flatvars, permvars>>

\* a call put_val(tb, key, val)
PutVal(tb, key, val) ==
    /\ pc = "build"
    /\ tabs' = IF probe(tabs[tb], key).exits
               THEN [tabs EXCEPT ![tb] = put_val(@, key, val)]
               ELSE tabs
    /\ PutCalled("put_val", tb, key)

\* a call put_ptr(tb, key, ptr)
PutPtr(tb, key, ptr) ==
    /\ pc = "build"
    /\ tabs' = IF probe(tabs[tb], key).exits
               THEN [tabs EXCEPT ![tb] = put_ptr(@, key, ptr)]
               ELSE tabs
    /\ PutCalled("put_ptr", tb, key)

\* a call find(tb, key)
Find(tb, key) ==
    /\ pc = "build"
    /\ LET f == find(tabs[tb], key)
       IN  /\ ev' = [op |-> "find", tab |-> tb, key |-> key,
                     res |-> IF ~f.returns THEN "hung"
                             ELSE IF f.found THEN "found" ELSE "absent",
                     had |-> key \in inserted[tb],
                     full |-> FullOfOthers(tabs[tb], key),
                     probes |-> f.probes]
           /\ pc' = IF f.returns THEN pc ELSE "hung"
    /\ UNCHANGED <<tabs, inserted, nputs, i, ret, t0, flatvars, permvars>>

\* one table, and keys enough to fill it
TableInit == FlatStart /\ PermIdle /\ NestStart

TableNext ==
    \/ \E key \in Keys17 : PutVal("level_c", key, 0) /\ UNCHANGED nputs
    \/ \E key \in Keys17 : PutPtr("level_c", key, "level_b") /\ UNCHANGED nputs
    \/ \E key \in Keys17 : Find("level_c", key)

SpecTable == TableInit /\ [][TableNext]_vars

\* ------------------------------------------ 17_nested_update: main's loop

\* the flow of control after a traversal that did not reach ec
Stopped(w) ==
    IF w.status = "hung" THEN pc' = "hung" ELSE pc' \in UBOutcomes

\* main reaches its for loop; t0 keeps the tables as built
StartLoop ==
    /\ pc = "build"
    /\ pc' = "loop"
    /\ t0' = tabs
    /\ UNCHANGED <<tabs, ev, inserted, nputs, i, ret, flatvars, permvars>>

\* one iteration of main's for loop
UpdateIn ==
    /\ pc = "loop"
    /\ i < MaxIter
    /\ LET w == walk(tabs)
       IN  IF w.status = "ok"
           THEN tabs' = inc(tabs, w) /\ i' = i + 1 /\ pc' = pc
           ELSE Stopped(w) /\ UNCHANGED <<tabs, i>>
    /\ UNCHANGED <<ev, inserted, nputs, ret, t0, flatvars, permvars>>

\* main leaves the loop, walks once more and prints rc->val
ReadPath ==
    /\ pc = "loop"
    /\ LET w == walk(tabs)
       IN  IF w.status = "ok"
           THEN ret' = tabs[w.tab][w.idx].val /\ pc' = "done"
           ELSE Stopped(w) /\ UNCHANGED ret
    /\ UNCHANGED <<tabs, ev, inserted, nputs, i, t0, flatvars, permvars>>

NestInit == FlatStart /\ PermIdle /\ NestStart

NestNext ==
    \/ \E tb \in Tables, key \in PathKeys :
          nputs < MaxPuts /\ PutVal(tb, key, 0) /\ nputs' = nputs + 1
    \/ \E tb \in Tables, key \in PathKeys, ptr \in Tables :
          nputs < MaxPuts /\ PutPtr(tb, key, ptr) /\ nputs' = nputs + 1
    \/ StartLoop
    \/ UpdateIn
    \/ ReadPath

SpecNested == NestInit /\ [][NestNext]_vars

\* ---------------------------------------------------------------- claims

\* C1: a key that has been put reads back the value of its latest put,
\* whatever other keys were put before or after it
C1_RoundTrip ==
    \A k \in DOMAIN mlast : get(m, k).returns /\ get(m, k).val = mlast[k]

\* a get of "a" has returned 1 from a map that holds all five keys, "a" away
\* from its own bucket, behind a key that was put before it
C1_Witness ==
    /\ mstat = "ready"
    /\ mev.op = "get" /\ mev.key = <<97>> /\ mev.val = 1
    /\ DOMAIN mlast = Keys
    /\ ~(m[6].used /\ m[6].key = <<97>>)

\* C10: a put of a key the map holds writes that key's slot alone: no other
\* slot changes, no slot is emptied, the occupied count stays, and the same
\* put once more changes nothing
C10_InPlaceUpdate ==
    [][(mev'.op = "put" /\ mev'.had /\ mstat' = "ready")
        => /\ \A idx \in DOMAIN m :
                \/ m'[idx] = m[idx]
                \/ /\ m[idx].used /\ m[idx].key = mev'.key
                   /\ m'[idx] = [key |-> mev'.key, val |-> mev'.val, used |-> TRUE]
           /\ Cardinality(Occupied(m')) = Cardinality(Occupied(m))
           /\ put_slot(m', mev'.key).exits
           /\ put(m', mev'.key, mev'.val) = m']_vars

\* a put has overwritten the value of a key held away from its own bucket
C10_Witness ==
    /\ mev.op = "put" /\ mev.had /\ mstat = "ready"
    /\ mev.key = <<106>> /\ mev.val = 1
    /\ m[0].used /\ m[0].key = <<106>> /\ m[0].val = 1
    /\ Cardinality(Occupied(m)) = 4

\* C5: the pairs put in one order into tA and in another into tB read back
\* alike, for every key, held or not
C5_CollisionIndependence ==
    (todoA = {} /\ todoB = {} /\ mstat = "ready")
        => \A k \in Keys :
              /\ get(tA, k).returns = get(tB, k).returns
              /\ get(tA, k).val = get(tB, k).val
              /\ get(tA, k).returns
              /\ get(tA, k).val = (IF k \in DOMAIN pairs THEN pairs[k] ELSE 0)

\* all five keys are in both maps, in different slots
C5_Witness ==
    /\ todoA = {} /\ todoB = {} /\ DOMAIN pairs = Keys
    /\ tA # tB
    /\ \A k \in Keys : pairs[k] = 1

\* the slot a probe for key starts at
Ideal17(key) == UAnd(hash_str(key), CAPACITY17 - 1)

\* C8: from the bucket of an occupied slot's key up to that slot, wrapping,
\* every slot is occupied, and find for the key returns that slot
C8_NoHoles ==
    \A tb \in Tables : \A idx \in DOMAIN tabs[tb] :
        tabs[tb][idx].used =>
            LET k == tabs[tb][idx].key
                dist == (idx + CAPACITY17 - Ideal17(k)) % CAPACITY17
            IN  /\ \A d \in 0 .. dist :
                      tabs[tb][(Ideal17(k) + d) % CAPACITY17].used
                /\ find(tabs[tb], k).returns
                /\ find(tabs[tb], k).found
                /\ find(tabs[tb], k).idx = idx

\* find has returned the slot of "e", which sits in slot 1 of a full table,
\* three slots past its bucket and past the end of the array
C8_Witness ==
    /\ ev.op = "find" /\ ev.key = <<101>> /\ ev.res = "found" /\ ev.probes = 4
    /\ tabs["level_c"][1].used /\ tabs["level_c"][1].key = <<101>>
    /\ \A idx \in 0 .. CAPACITY17 - 1 : tabs["level_c"][idx].used

\* C9: no two occupied slots of a table hold the same key
C9_KeyUniqueness ==
    \A tb \in Tables : \A i1, i2 \in DOMAIN tabs[tb] :
        (tabs[tb][i1].used /\ tabs[tb][i2].used
            /\ tabs[tb][i1].key = tabs[tb][i2].key) => i1 = i2

\* put_ptr has returned from a put of "e", which put_val had put before, into
\* a full table where "e" sits behind "a", with which it shares a bucket
C9_Witness ==
    /\ ev.op = "put_ptr" /\ ev.key = <<101>> /\ ev.had /\ ev.res = "void"
    /\ tabs["level_c"][2].used /\ tabs["level_c"][2].key = <<97>>
    /\ tabs["level_c"][3].used /\ tabs["level_c"][3].key = <<101>>
    /\ tabs["level_c"][3].is_ptr /\ tabs["level_c"][3].ptr = "level_b"
    /\ \A idx \in 0 .. CAPACITY17 - 1 : tabs["level_c"][idx].used

\* C2: a put of a key into a table whose slots are all occupied by other
\* keys reports TableFull and returns
C2_CapacityGuard ==
    (ev.op \in {"put_val", "put_ptr"} /\ ev.full)
        => (ev.res = "TableFull" /\ pc # "hung")

\* C3: every call of put_val, put_ptr and find returns, after at most
\* CAPACITY probes
C3_Totality ==
    /\ pc # "hung"
    /\ ev.res # "hung"
    /\ ev.probes <= CAPACITY17

\* C4: find of a key that was never put returns NULL
C4_Absence ==
    (ev.op = "find" /\ ~ev.had) => ev.res = "absent"

\* what holds of the code in place of C4: find of a key that was never put
\* returns NULL from a table that has an empty slot
AbsentWithEmptySlot ==
    (ev.op = "find" /\ ~ev.had /\ ~ev.full) => (ev.res = "absent" /\ pc = "build")

\* the entries of main's tables: "a" -> level_b, "b" -> level_c, "c" -> 0
MainShape(T) ==
    LET Held(t) == {[key |-> t[idx].key, is_ptr |-> t[idx].is_ptr,
                     to |-> IF t[idx].is_ptr THEN t[idx].ptr ELSE "NULL",
                     val |-> IF t[idx].is_ptr THEN 0 ELSE t[idx].val] :
                        idx \in {x \in DOMAIN t : t[x].used}}
    IN  /\ Held(T["level_a"]) = {[key |-> <<97>>, is_ptr |-> TRUE, to |-> "level_b", val |-> 0]}
        /\ Held(T["level_b"]) = {[key |-> <<98>>, is_ptr |-> TRUE, to |-> "level_c", val |-> 0]}
        /\ Held(T["level_c"]) = {[key |-> <<99>>, is_ptr |-> FALSE, to |-> "NULL", val |-> 0]}

\* C6: from main's tables, after i iterations the path "a" "b" "c" leads to
\* the value i, which is what main prints; the tables are as built but for
\* the val of the one occupied slot of level_c
C6_NestedMutation ==
    (pc \in {"loop", "done"} /\ MainShape(t0))
        => /\ walk(tabs).status = "ok"
           /\ walk(tabs).tab = "level_c"
           /\ tabs["level_c"][walk(tabs).idx].val = i
           /\ \E idx \in DOMAIN t0["level_c"] :
                 /\ t0["level_c"][idx].used
                 /\ tabs = [t0 EXCEPT !["level_c"][idx].val = i]
           /\ (pc = "done" => ret = i)

\* main has printed 2 after two iterations over the tables it builds
C6_Witness ==
    /\ pc = "done" /\ MainShape(t0) /\ i = 2 /\ ret = 2 /\ nputs = 3

\* a key of the path but the last is not held by its table, or is held by
\* an entry that is no pointer
BadSegment(T) ==
    LET fa == find(T["level_a"], <<97>>)
        ea == T["level_a"][fa.idx]
        fb == find(T[ea.ptr], <<98>>)
        eb == T[ea.ptr][fb.idx]
    IN  \/ ~fa.found
        \/ ~ea.is_ptr
        \/ ~fb.found
        \/ ~eb.is_ptr

\* C7: a traversal of tables with such a key ends in PathNotFound
C7_PathNotFound ==
    ((pc # "build" /\ (i > 0 \/ pc # "loop")) /\ BadSegment(t0))
        => pc = "PathNotFound"

\* the traversal has gone through the pointer an earlier put_ptr left in an
\* entry that put_val wrote last, and main has printed a value (reachable
\* from four puts: MaxPuts = 4)
StalePointerFollowed ==
    pc = "done" /\ BadSegment(t0)

====
